---- MODULE Spec2Model ----
(***************************************************************************)
(* Model of the structural compression of src/figma-parser.ts (parse and   *)
(* getSwiftTree) and of the get_swift_tree tool handler that calls it.      *)
(*                                                                         *)
(* Representation:                                                         *)
(*   - a string the code inspects (a layer name, text content, a hex       *)
(*     colour) is a sequence of one-character strings, so toLowerCase,     *)
(*     trim and startsWith are computed character by character;            *)
(*   - a FigmaNode / SlimNode is a record whose optional fields are simply *)
(*     absent from its domain when undefined;                              *)
(*   - colour channels and opacity are thousandths (500 is 0.5), bounding  *)
(*     box sizes are tenths of a pixel (1234 is 123.4);                    *)
(*   - null is the record Null.                                            *)
(***************************************************************************)
EXTENDS Integers, Sequences, FiniteSets, TLC

VARIABLES pc, args, response, node, styles, parsed, tree, toolResult, variables, graph, stack

vars == <<pc, args, response, node, styles, parsed, tree, toolResult, variables, graph, stack>>

Null == [null |-> TRUE]

Has(r, f) == f \in DOMAIN r

(***************************************************************************)
(* String primitives of the JavaScript runtime                             *)
(***************************************************************************)

\* the letters toLowerCase changes (the names of the model are ASCII)
UpperToLower ==
  ("A" :> "a") @@ ("B" :> "b") @@ ("C" :> "c") @@ ("D" :> "d") @@ ("E" :> "e") @@ ("F" :> "f") @@
  ("G" :> "g") @@ ("H" :> "h") @@ ("I" :> "i") @@ ("J" :> "j") @@ ("K" :> "k") @@ ("L" :> "l") @@
  ("M" :> "m") @@ ("N" :> "n") @@ ("O" :> "o") @@ ("P" :> "p") @@ ("Q" :> "q") @@ ("R" :> "r") @@
  ("S" :> "s") @@ ("T" :> "t") @@ ("U" :> "u") @@ ("V" :> "v") @@ ("W" :> "w") @@ ("X" :> "x") @@
  ("Y" :> "y") @@ ("Z" :> "z")

ToLowerChar(c) == IF c \in DOMAIN UpperToLower THEN UpperToLower[c] ELSE c

toLowerCase(s) == [i \in 1..Len(s) |-> ToLowerChar(s[i])]

WhiteSpace == {" ", "\t", "\n"}

RECURSIVE trimStart(_)
trimStart(s) ==
  IF s # <<>> /\ Head(s) \in WhiteSpace THEN trimStart(Tail(s)) ELSE s

RECURSIVE trimEnd(_)
trimEnd(s) ==
  IF s # <<>> /\ s[Len(s)] \in WhiteSpace THEN trimEnd(SubSeq(s, 1, Len(s) - 1)) ELSE s

trim(s) == trimEnd(trimStart(s))

startsWith(s, p) == Len(s) >= Len(p) /\ SubSeq(s, 1, Len(p)) = p

\* Math.round on a value given in units of 1/scale: round half up
MathRound(x, scale) == (2 * x + scale) \div (2 * scale)

HexDigits == <<"0","1","2","3","4","5","6","7","8","9","a","b","c","d","e","f">>

RECURSIVE toString16(_)
toString16(v) ==
  IF v < 16 THEN <<HexDigits[v + 1]>>
  ELSE toString16(v \div 16) \o <<HexDigits[(v % 16) + 1]>>

padStart2(s) == IF Len(s) < 2 THEN <<"0">> \o s ELSE s

(***************************************************************************)
(* SF Symbol map: private-use glyph (named by its code point) -> symbol    *)
(***************************************************************************)

\* SF_SYMBOLS in the source (SF_ is reserved in TLA+)
SfSymbols ==
  (<<"U+100189">> :> "chevron.left") @@ (<<"U+10014D">> :> "questionmark") @@
  (<<"U+100211">> :> "trash") @@ (<<"U+100184">> :> "xmark") @@
  (<<"U+100185">> :> "checkmark") @@ (<<"U+10018A">> :> "chevron.right") @@
  (<<"U+100707">> :> "location") @@ (<<"U+1006FF">> :> "eye") @@
  (<<"U+1003ED">> :> "photo.on.rectangle") @@ (<<"U+1003F0">> :> "photo.on.rectangle") @@
  (<<"U+100263">> :> "tag") @@ (<<"U+1027B7">> :> "trophy") @@
  (<<"U+1010D0">> :> "photo.badge.plus") @@ (<<"U+1001AA">> :> "globe") @@
  (<<"U+1003A0">> :> "lock") @@ (<<"U+100174">> :> "info.circle") @@
  (<<"U+1002AB">> :> "heart") @@ (<<"U+1002AC">> :> "heart.fill") @@
  (<<"U+100202">> :> "square.and.arrow.up") @@ (<<"U+100667">> :> "person.2") @@
  (<<"U+100269">> :> "bookmark") @@ (<<"U+10035F">> :> "ellipsis") @@
  (<<"U+10039E">> :> "gear") @@ (<<"U+1008D8">> :> "camera") @@
  (<<"U+1003DF">> :> "photo") @@ (<<"U+10017C">> :> "plus") @@
  (<<"U+10017D">> :> "minus") @@ (<<"U+100283">> :> "magnifyingglass") @@
  (<<"U+1002C2">> :> "bell") @@ (<<"U+1002C3">> :> "bell.fill") @@
  (<<"U+10031C">> :> "house") @@ (<<"U+10031D">> :> "house.fill")

\* SF_SYMBOLS is an object literal: a lookup also finds what it inherits from
\* Object.prototype, and each of these values is truthy
InheritedKeys ==
  {<<"c", "o", "n", "s", "t", "r", "u", "c", "t", "o", "r">>, <<"t", "o", "S", "t", "r", "i", "n", "g">>, <<"t", "o", "L", "o", "c", "a", "l", "e", "S", "t", "r", "i", "n", "g">>, <<"v", "a", "l", "u", "e", "O", "f">>, <<"h", "a", "s", "O", "w", "n", "P", "r", "o", "p", "e", "r", "t", "y">>,
   <<"i", "s", "P", "r", "o", "t", "o", "t", "y", "p", "e", "O", "f">>, <<"p", "r", "o", "p", "e", "r", "t", "y", "I", "s", "E", "n", "u", "m", "e", "r", "a", "b", "l", "e">>, <<"_", "_", "p", "r", "o", "t", "o", "_", "_">>}

(***************************************************************************)
(* Rule 1: decorative / system nodes                                       *)
(***************************************************************************)

isDecorative(n) ==
  LET nm == trim(toLowerCase(n.name)) IN
    \/ (Has(n, "visible") /\ n.visible = FALSE)
    \/ nm = <<"s", "t", "a", "t", "u", "s", " ", "b", "a", "r">> \/ nm = <<"t", "i", "m", "e">> \/ nm = <<"l", "e", "v", "e", "l", "s">>
    \/ nm = <<"c", "e", "l", "l", "u", "l", "a", "r", " ", "c", "o", "n", "n", "e", "c", "t", "i", "o", "n">> \/ nm = <<"w", "i", "f", "i">>
    \/ nm = <<"b", "l", "u", "r">> \/ nm = <<"m", "a", "s", "k">> \/ nm = <<"s", "h", "a", "d", "o", "w">> \/ nm = <<"t", "i", "n", "t">>
    \/ nm = <<"g", "l", "a", "s", "s", " ", "e", "f", "f", "e", "c", "t">> \/ startsWith(nm, <<"l", "i", "q", "u", "i", "d", " ", "g", "l", "a", "s", "s">>)
    \/ nm = <<"b", "g">> \/ nm = <<"b", "a", "c", "k", "g", "r", "o", "u", "n", "d">>
    \/ startsWith(nm, <<"s", "c", "r", "o", "l", "l", " ", "e", "d", "g", "e", " ", "e", "f", "f", "e", "c", "t">>)
    \/ startsWith(nm, <<"s", "c", "r", "o", "l", "l", "b", "a", "r">>)
    \/ nm = <<"t", "h", "u", "m", "b">> \/ nm = <<"g", "r", "a", "b", "b", "e", "r">>
    \/ nm = <<"c", "a", "p">> \/ nm = <<"c", "a", "p", "a", "c", "i", "t", "y">> \/ nm = <<"b", "o", "r", "d", "e", "r">>
    \/ (nm = <<"o", "v", "e", "r", "l", "a", "y">> /\ ~(Has(n, "children") /\ Len(n.children) > 0))

(***************************************************************************)
(* Rule 2: empty leaves                                                    *)
(***************************************************************************)

isEmptyLeaf(n) ==
  IF n.type = "TEXT" /\ Has(n, "characters") /\ trim(n.characters) # <<>> THEN FALSE
  ELSE IF Has(n, "children") /\ Len(n.children) > 0 THEN FALSE
  ELSE IF n.type = "VECTOR" \/ n.type = "BOOLEAN_OPERATION" THEN FALSE
  ELSE n.type \in {"FRAME", "GROUP", "RECTANGLE", "INSTANCE", "COMPONENT"}

(***************************************************************************)
(* Rule 3: classification                                                  *)
(***************************************************************************)

hasImageFill(n) ==
  Has(n, "fills") /\ \E i \in 1..Len(n.fills) : n.fills[i].type = "IMAGE"

RECURSIVE hasTextDescendant(_)
hasTextDescendant(n) ==
  IF n.type = "TEXT" THEN TRUE
  ELSE IF Has(n, "children")
       THEN \E i \in 1..Len(n.children) : hasTextDescendant(n.children[i])
       ELSE FALSE

\* faulty variant of classifyType: auto-layout is tested before the image fill
classifyTypeLayoutFirst(n) ==
  IF n.type = "TEXT" THEN "Text"
  ELSE IF n.type = "VECTOR" \/ n.type = "BOOLEAN_OPERATION" THEN "Shape"
  ELSE IF Has(n, "layoutMode") /\ n.layoutMode = "HORIZONTAL" THEN "HStack"
  ELSE IF Has(n, "layoutMode") /\ n.layoutMode = "VERTICAL" THEN "VStack"
  ELSE IF hasImageFill(n) /\ ~hasTextDescendant(n) THEN "Image"
  ELSE IF n.type = "INSTANCE" \/ n.type = "COMPONENT" THEN "Component"
  ELSE IF n.type = "FRAME" \/ n.type = "GROUP" THEN "Frame"
  ELSE "View"

classifyType(n) ==
  IF n.type = "TEXT" THEN "Text"
  ELSE IF n.type = "VECTOR" \/ n.type = "BOOLEAN_OPERATION" THEN "Shape"
  ELSE IF hasImageFill(n) /\ ~hasTextDescendant(n) THEN "Image"
  ELSE IF Has(n, "layoutMode") /\ n.layoutMode = "HORIZONTAL" THEN "HStack"
  ELSE IF Has(n, "layoutMode") /\ n.layoutMode = "VERTICAL" THEN "VStack"
  ELSE IF n.type = "INSTANCE" \/ n.type = "COMPONENT" THEN "Component"
  ELSE IF n.type = "FRAME" \/ n.type = "GROUP" THEN "Frame"
  ELSE "View"

(***************************************************************************)
(* Helpers                                                                 *)
(***************************************************************************)

rgbaToHex(c) ==
  LET r == MathRound(c.r * 255, 1000)
      g == MathRound(c.g * 255, 1000)
      b == MathRound(c.b * 255, 1000)
      hex == <<"#">> \o padStart2(toString16(r)) \o padStart2(toString16(g))
                     \o padStart2(toString16(b))
  IN IF c.a < 1000 THEN hex \o padStart2(toString16(MathRound(c.a * 255, 1000)))
     ELSE hex

IsSolid(f) == f.type = "SOLID" /\ Has(f, "color")

\* undefined is the empty string <<>>: every use in the code is a truthiness
\* test, and a hex colour is never empty
getSolidFill(n) ==
  IF ~Has(n, "fills") THEN <<>>
  ELSE IF \E i \in 1..Len(n.fills) : IsSolid(n.fills[i])
       THEN LET k == CHOOSE i \in 1..Len(n.fills) :
                       /\ IsSolid(n.fills[i])
                       /\ \A j \in 1..(i - 1) : ~IsSolid(n.fills[j])
            IN rgbaToHex(n.fills[k].color)
       ELSE <<>>

\* a numeric field that is defined and not 0
Truthy(n, f) == Has(n, f) /\ n[f] # 0

hasMeaningfulPadding(n) ==
  Truthy(n, "paddingTop") \/ Truthy(n, "paddingRight") \/
  Truthy(n, "paddingBottom") \/ Truthy(n, "paddingLeft")

Opt(cond, f, v) == IF cond THEN f :> v ELSE <<>>

getPadding(n) ==
  Opt(Truthy(n, "paddingTop"), "top", IF Has(n, "paddingTop") THEN n.paddingTop ELSE 0) @@
  Opt(Truthy(n, "paddingRight"), "right", IF Has(n, "paddingRight") THEN n.paddingRight ELSE 0) @@
  Opt(Truthy(n, "paddingBottom"), "bottom", IF Has(n, "paddingBottom") THEN n.paddingBottom ELSE 0) @@
  Opt(Truthy(n, "paddingLeft"), "left", IF Has(n, "paddingLeft") THEN n.paddingLeft ELSE 0)

(***************************************************************************)
(* Core: recursive parse with structural compression                       *)
(***************************************************************************)

\* faulty variant of MaxDepth: the guard lets one more level through
MaxDepthOneMore == 20 + 1

MaxDepth == 20

\* faulty variant of textLeaf: the glyph is looked up before trimming
textLeafRawLookup(n) ==
  LET trimmed == trim(n.characters)
      fill == getSolidFill(n)
  IN IF trimmed = <<>> THEN Null
     ELSE IF n.characters \in DOMAIN SfSymbols
          THEN [name |-> n.name, type |-> "Icon", icon |-> SfSymbols[n.characters]]
          ELSE IF n.characters \in InheritedKeys
          THEN [name |-> n.name, type |-> "Icon", icon |-> "Object.prototype"]
          ELSE [name |-> n.name, type |-> "Text", content |-> trimmed] @@
               Opt(fill # <<>> /\ fill # <<"#", "0", "0", "0", "0", "0", "0">> /\ fill # <<"#", "0", "0", "0", "0", "0", "0", "f", "f">>, "fill", fill)

\* text leaf (lines 195-208); the caller has checked type TEXT and truthy characters
textLeaf(n) ==
  LET trimmed == trim(n.characters)
      fill == getSolidFill(n)
  IN IF trimmed = <<>> THEN Null
     ELSE IF trimmed \in DOMAIN SfSymbols
          THEN [name |-> n.name, type |-> "Icon", icon |-> SfSymbols[trimmed]]
          ELSE IF trimmed \in InheritedKeys
          THEN [name |-> n.name, type |-> "Icon", icon |-> "Object.prototype"]
          ELSE [name |-> n.name, type |-> "Text", content |-> trimmed] @@
               Opt(fill # <<>> /\ fill # <<"#", "0", "0", "0", "0", "0", "0">> /\ fill # <<"#", "0", "0", "0", "0", "0", "0", "f", "f">>, "fill", fill)

\* every child was filtered and the node is not text (lines 220-232)
imageFallback(n) ==
  IF hasImageFill(n)
  THEN [name |-> n.name, type |-> "Image"] @@
       (IF Has(n, "absoluteBoundingBox")
        THEN [width |-> MathRound(n.absoluteBoundingBox.width, 10),
              height |-> MathRound(n.absoluteBoundingBox.height, 10)]
        ELSE <<>>) @@
       Opt(Truthy(n, "cornerRadius"), "cornerRadius",
           IF Has(n, "cornerRadius") THEN n.cornerRadius ELSE 0)
  ELSE Null

isDefaultFill(n) ==
  LET fill == getSolidFill(n) IN
    fill = <<>> \/ fill = <<"#", "0", "0", "0", "0", "0", "0">> \/ fill = <<"#", "f", "f", "f", "f", "f", "f">> \/
    fill = <<"#", "0", "0", "0", "0", "0", "0", "f", "f">> \/ fill = <<"#", "f", "f", "f", "f", "f", "f", "f", "f">>

\* faulty variant of hasVisibleCorner: the ceiling of the output field is used
hasVisibleCornerWide(n) ==
  Truthy(n, "cornerRadius") /\ n.cornerRadius > 0 /\ n.cornerRadius < 999

hasVisibleCorner(n) ==
  Truthy(n, "cornerRadius") /\ n.cornerRadius > 0 /\ n.cornerRadius < 100

hasOpacity(n) == Has(n, "opacity") /\ n.opacity < 1000

\* the wrapper adds a visually meaningful style (line 249)
\* faulty variant of isMeaningful: auto-layout counts as visually meaningful
isMeaningfulWithLayout(n) ==
  ~isDefaultFill(n) \/ hasVisibleCorner(n) \/ hasOpacity(n) \/ Has(n, "layoutMode")

isMeaningful(n) == ~isDefaultFill(n) \/ hasVisibleCorner(n) \/ hasOpacity(n)

\* faulty variant of isGenericName: "container" is missing from the generic names
isGenericNameNoContainer(n) ==
  LET currentName == toLowerCase(n.name) IN
    startsWith(currentName, <<"f", "r", "a", "m", "e">>) \/
    currentName = <<"c", "o", "n", "t", "e", "n", "t", "s">> \/ currentName = <<"c", "o", "n", "t", "e", "n", "t">> \/
    startsWith(currentName, <<"a", "c", "c", "e", "s", "s", "o", "r", "i", "e", "s">>) \/ startsWith(currentName, <<"_">>) \/
    currentName = <<"t", "e", "x", "t">> \/ currentName = <<"i", "m", "a", "g", "e">>

isGenericName(n) ==
  LET currentName == toLowerCase(n.name) IN
    startsWith(currentName, <<"f", "r", "a", "m", "e">>) \/ currentName = <<"c", "o", "n", "t", "a", "i", "n", "e", "r">> \/
    currentName = <<"c", "o", "n", "t", "e", "n", "t", "s">> \/ currentName = <<"c", "o", "n", "t", "e", "n", "t">> \/
    startsWith(currentName, <<"a", "c", "c", "e", "s", "s", "o", "r", "i", "e", "s">>) \/ startsWith(currentName, <<"_">>) \/
    currentName = <<"t", "e", "x", "t">> \/ currentName = <<"i", "m", "a", "g", "e">>

\* faulty variant of flattens: the number of raw children decides
flattensOnRawChildren(n, children, isRoot) ==
  Has(n, "children") /\ Len(n.children) = 1 /\ Len(children) = 1 /\ ~isRoot /\
  ~isMeaningful(n)

\* the condition of single-child flattening (lines 242-249), on the children
\* that were not filtered
flattens(n, children, isRoot) == Len(children) = 1 /\ ~isRoot /\ ~isMeaningful(n)

\* faulty variant of flatten: the wrapper's name is never adopted
flattenKeepChildName(n, child) == child

\* unwrap a single-child wrapper (lines 250-259)
flatten(n, child) ==
  IF isGenericName(n) THEN child
  ELSE [f \in DOMAIN child |-> IF f = "name" THEN n.name ELSE child[f]]

slimFill(n) ==
  LET fill == getSolidFill(n) IN
    Opt(fill # <<>> /\ fill # <<"#", "0", "0", "0", "0", "0", "0">> /\ fill # <<"#", "f", "f", "f", "f", "f", "f">> /\
        fill # <<"#", "0", "0", "0", "0", "0", "0", "f", "f">> /\ fill # <<"#", "f", "f", "f", "f", "f", "f", "f", "f">>, "fill", fill)

slimCornerRadius(n) ==
  Opt(Truthy(n, "cornerRadius") /\ n.cornerRadius > 0 /\ n.cornerRadius < 999,
      "cornerRadius", IF Has(n, "cornerRadius") THEN n.cornerRadius ELSE 0)

slimOpacity(n) ==
  Opt(Has(n, "opacity") /\ n.opacity < 1000,
      "opacity", IF Has(n, "opacity") THEN MathRound(n.opacity * 100, 1000) * 10 ELSE 0)

\* faulty variant of slimLayout: the layout fields are attached whatever the type
slimLayoutAnyType(n, type) ==
  Opt(Truthy(n, "itemSpacing"), "spacing",
      IF Has(n, "itemSpacing") THEN n.itemSpacing ELSE 0) @@
  Opt(hasMeaningfulPadding(n), "padding", getPadding(n))

slimLayout(n, type) ==
  IF type = "HStack" \/ type = "VStack"
  THEN Opt(Truthy(n, "itemSpacing"), "spacing",
           IF Has(n, "itemSpacing") THEN n.itemSpacing ELSE 0) @@
       Opt(hasMeaningfulPadding(n), "padding", getPadding(n))
  ELSE <<>>

\* faulty variant of slimDimensions: every node with a bounding box gets its size
slimDimensionsAnyType(n, type, isRoot) ==
  IF Has(n, "absoluteBoundingBox")
  THEN [width |-> MathRound(n.absoluteBoundingBox.width, 10),
        height |-> MathRound(n.absoluteBoundingBox.height, 10)]
  ELSE <<>>

slimDimensions(n, type, isRoot) ==
  IF (type = "Image" \/ isRoot) /\ Has(n, "absoluteBoundingBox")
  THEN [width |-> MathRound(n.absoluteBoundingBox.width, 10),
        height |-> MathRound(n.absoluteBoundingBox.height, 10)]
  ELSE <<>>

\* default construction (lines 263-302)
buildSlim(n, children, isRoot) ==
  LET type == classifyType(n) IN
    [name |-> n.name, type |-> type] @@ slimFill(n) @@ slimCornerRadius(n) @@
    slimOpacity(n) @@ slimLayout(n, type) @@ slimDimensions(n, type, isRoot) @@
    Opt(Len(children) > 0, "children", children)

\* the children of a raw node, none when the field is absent (line 211)
rawChildren(n) == IF Has(n, "children") THEN n.children ELSE <<>>

\* null or a node, as the list the caller's loop adds to its children
\* (lines 213-216): empty for null
pushed1(p) == IF p = Null THEN <<>> ELSE <<p>>

\* lines 220-302, once the children are parsed: the image fallback or null
\* for a node left without children, the flattening, the default
\* construction; the result as the caller's loop takes it
parseAfterChildren(n, children, isRoot) ==
  IF children = <<>> /\ n.type # "TEXT" THEN pushed1(imageFallback(n))
  ELSE IF flattens(n, children, isRoot) THEN <<flatten(n, children[1])>>
  ELSE <<buildSlim(n, children, isRoot)>>

RECURSIVE parseInto(_, _, _), parseChildren(_, _)

\* the loop of lines 211-217 over the children kids of a node at depth
parseChildren(kids, depth) ==
  IF kids = <<>> THEN <<>>
  ELSE parseInto(Head(kids), depth + 1, FALSE) \o parseChildren(Tail(kids), depth)

\* faulty variant of parseInto: the empty-leaf rule is lost, a node without
\* children and without an image fill is constructed
parseIntoNoPrune(n, depth, isRoot) ==
  IF depth > MaxDepth \/ isDecorative(n) THEN <<>>
  ELSE IF n.type = "TEXT" /\ Has(n, "characters") /\ n.characters # <<>> THEN pushed1(textLeaf(n))
  ELSE IF rawChildren(n) = <<>> /\ ~hasImageFill(n) THEN <<buildSlim(n, <<>>, isRoot)>>
  ELSE parseAfterChildren(n, parseChildren(rawChildren(n), depth), isRoot)

\* lines 189-303 as the caller's loop takes the result, a list that is empty
\* for null and holds the node otherwise: the three early returns of null
\* (190-193), the text leaf (195-208), then the children and what follows
parseInto(n, depth, isRoot) ==
  IF depth > MaxDepth \/ isDecorative(n) \/ isEmptyLeaf(n) THEN <<>>
  ELSE IF n.type = "TEXT" /\ Has(n, "characters") /\ n.characters # <<>> THEN pushed1(textLeaf(n))
  ELSE parseAfterChildren(n, parseChildren(rawChildren(n), depth), isRoot)

\* parse (lines 189-303): null or the compressed node
parse(n, depth, isRoot) ==
  LET into == parseInto(n, depth, isRoot) IN IF into = <<>> THEN Null ELSE into[1]

(***************************************************************************)
(* Compression of an object graph: children held by reference              *)
(***************************************************************************)

\* an object graph g maps object identities to raw nodes whose children
\* field lists identities; the helpers that read a node's own fields apply
\* to g[id] as they are

\* the call stack is exhausted (RangeError: Maximum call stack size exceeded)
Raised == [raised |-> "RangeError"]

RECURSIVE hasTextDescendantIn(_, _, _), someTextDescendantIn(_, _, _)

\* hasTextDescendant (lines 150-156) on the object id of g while the calls
\* for the objects in onStack are open: a call for an object that is open
\* repeats itself without end and exhausts the stack
hasTextDescendantIn(g, id, onStack) ==
  IF g[id].type = "TEXT" THEN "true"
  ELSE IF id \in onStack THEN "RangeError"
  ELSE IF Has(g[id], "children")
       THEN someTextDescendantIn(g, g[id].children, onStack \cup {id})
       ELSE "false"

\* children.some(...) of line 153: in order, stopping at the first true
someTextDescendantIn(g, kids, onStack) ==
  IF kids = <<>> THEN "false"
  ELSE LET r == hasTextDescendantIn(g, Head(kids), onStack) IN
         IF r = "false" THEN someTextDescendantIn(g, Tail(kids), onStack) ELSE r

\* classifyType (lines 129-143) on the object id of g
classifyTypeIn(g, id) ==
  LET n == g[id]
      rest == IF Has(n, "layoutMode") /\ n.layoutMode = "HORIZONTAL" THEN "HStack"
              ELSE IF Has(n, "layoutMode") /\ n.layoutMode = "VERTICAL" THEN "VStack"
              ELSE IF n.type = "INSTANCE" \/ n.type = "COMPONENT" THEN "Component"
              ELSE IF n.type = "FRAME" \/ n.type = "GROUP" THEN "Frame"
              ELSE "View"
  IN IF n.type = "TEXT" THEN "Text"
     ELSE IF n.type = "VECTOR" \/ n.type = "BOOLEAN_OPERATION" THEN "Shape"
     ELSE IF hasImageFill(n)
          THEN LET below == hasTextDescendantIn(g, id, {}) IN
                 IF below = "RangeError" THEN "RangeError"
                 ELSE IF below = "false" THEN "Image" ELSE rest
          ELSE rest

\* default construction (lines 263-302) on the object id of g
buildSlimIn(g, id, children, isRoot) ==
  LET n == g[id]
      type == classifyTypeIn(g, id)
  IN IF type = "RangeError" THEN Raised
     ELSE [name |-> n.name, type |-> type] @@ slimFill(n) @@ slimCornerRadius(n) @@
          slimOpacity(n) @@ slimLayout(n, type) @@ slimDimensions(n, type, isRoot) @@
          Opt(Len(children) > 0, "children", children)

\* parse gets as far as the loop over the children (lines 190-208 passed)
reachesChildren(n, depth) ==
  /\ ~(depth > MaxDepth)
  /\ ~isDecorative(n)
  /\ ~isEmptyLeaf(n)
  /\ ~(n.type = "TEXT" /\ Has(n, "characters") /\ n.characters # <<>>)

\* what parse returns before the loop (lines 190-208)
parseBeforeChildren(n, depth) ==
  IF depth > MaxDepth THEN Null
  ELSE IF isDecorative(n) THEN Null
  ELSE IF isEmptyLeaf(n) THEN Null
  ELSE textLeaf(n)

\* what parse returns after the loop left it the list children (lines 220-302)
parseAfterChildrenIn(g, id, children, isRoot) ==
  IF Len(children) = 0 /\ g[id].type # "TEXT" THEN imageFallback(g[id])
  ELSE IF flattens(g[id], children, isRoot) THEN flatten(g[id], children[1])
  ELSE buildSlimIn(g, id, children, isRoot)

\* the activation of parse for object id: next is the index of the child the
\* loop of lines 213-216 comes to, children the list built so far
Activation(id, depth, isRoot) ==
  [id |-> id, depth |-> depth, isRoot |-> isRoot, next |-> 1, children |-> <<>>]

childrenOf(n) == IF Has(n, "children") THEN n.children ELSE <<>>

\* line 215: a result that is not null is pushed
pushed(f, p) ==
  [f EXCEPT !.next = @ + 1, !.children = IF p = Null THEN @ ELSE Append(@, p)]

(***************************************************************************)
(* Design tokens and the tree envelope                                     *)
(***************************************************************************)

\* a style value is [t |-> "string", s |-> <text>] or a value of another type
extractTokens(st) ==
  LET keys == {k \in DOMAIN st : st[k].t = "string"} IN
    [k \in keys |-> st[k].s]

\* faulty variant of getSwiftTreeOf: the compressed root is always listed itself
getSwiftTreeWrapRoot(n, st) ==
  LET tokens == extractTokens(st)
      p == parse(n, 0, TRUE)
  IN [screen |-> n.name,
      width |-> IF Has(n, "absoluteBoundingBox")
                THEN MathRound(n.absoluteBoundingBox.width, 10) ELSE 0,
      height |-> IF Has(n, "absoluteBoundingBox")
                 THEN MathRound(n.absoluteBoundingBox.height, 10) ELSE 0,
      components |-> IF p # Null THEN <<p>> ELSE <<>>,
      tokens |-> tokens]

\* lines 354-365, from the result of fetchFigmaNode on
getSwiftTreeOf(n, st) ==
  LET tokens == extractTokens(st)
      p == parse(n, 0, TRUE)
  IN [screen |-> n.name,
      width |-> IF Has(n, "absoluteBoundingBox")
                THEN MathRound(n.absoluteBoundingBox.width, 10) ELSE 0,
      height |-> IF Has(n, "absoluteBoundingBox")
                 THEN MathRound(n.absoluteBoundingBox.height, 10) ELSE 0,
      components |-> IF p # Null /\ Has(p, "children") THEN p.children
                     ELSE IF p # Null THEN <<p>> ELSE <<>>,
      tokens |-> tokens]

(***************************************************************************)
(* Raw trees the upstream can answer with                                  *)
(***************************************************************************)

\* longest chain of nested wrappers put between the root and a subtree
MaxChain == 23

Solid(r, g, b, a) == [type |-> "SOLID", color |-> [r |-> r, g |-> g, b |-> b, a |-> a]]

Black == Solid(0, 0, 0, 1000)

White == Solid(1000, 1000, 1000, 1000)

Red == Solid(1000, 0, 0, 1000)

WhiteHalf == Solid(1000, 1000, 1000, 500)

BlackNearOpaque == Solid(0, 0, 0, 999)

ImageFill == [type |-> "IMAGE"]

Gradient == [type |-> "GRADIENT_LINEAR"]

BBox == [x |-> 0, y |-> 0, width |-> 1235, height |-> 404]

Glyph == "U+100189"

Mk(nm, ty) == [name |-> nm, type |-> ty]

W(profile, kids) == profile @@ [children |-> kids]

\* --- leaves ---

TextContents ==
  {<<" ", "H", "e", "l", "l", "o", " ">>, <<Glyph>>, <<" ", "U+1002AC", "\t">>, <<" ", " ">>, <<>>, <<"c", "o", "n", "s", "t", "r", "u", "c", "t", "o", "r">>}

TextExtras ==
  {<<>>, [fills |-> <<Red>>, opacity |-> 500],
   [fills |-> <<Gradient, Black>>, opacity |-> 1000, visible |-> TRUE],
   [fills |-> <<BlackNearOpaque>>, opacity |-> 455, cornerRadius |-> 8],
   [visible |-> FALSE]}

TextLeaves ==
  {Mk(nm, "TEXT") @@ [characters |-> ch] @@ ex :
     nm \in {<<"T", "i", "t", "l", "e">>, <<"S", "t", "a", "t", "u", "s", " ", "B", "a", "r">>}, ch \in TextContents, ex \in TextExtras}
  \cup {Mk(<<"C", "a", "p", "t", "i", "o", "n">>, "TEXT"), Mk(<<"o", "v", "e", "r", "l", "a", "y">>, "TEXT") @@ [characters |-> <<"D", "i", "m">>]}

ShapeExtras ==
  {<<>>,
   [fills |-> <<ImageFill>>, absoluteBoundingBox |-> BBox, cornerRadius |-> 500,
    opacity |-> 500],
   [fills |-> <<Red, ImageFill>>, cornerRadius |-> -4],
   [fills |-> <<ImageFill>>, cornerRadius |-> 8, opacity |-> 1000, children |-> <<>>],
   [fills |-> <<Red>>, cornerRadius |-> 12, opacity |-> 300]}

ShapeLeaves ==
  {Mk(<<"G", "l", "y", "p", "h">>, ty) @@ ex :
     ty \in {"VECTOR", "BOOLEAN_OPERATION", "FRAME", "GROUP", "RECTANGLE",
             "INSTANCE", "COMPONENT", "ELLIPSE"},
     ex \in ShapeExtras}
  \cup {Mk(<<"O", "v", "e", "r", "l", "a", "y">>, "ELLIPSE") @@ [fills |-> <<ImageFill>>]}

Leaves == TextLeaves \cup ShapeLeaves

Hello == Mk(<<"T", "i", "t", "l", "e">>, "TEXT") @@ [characters |-> <<"H", "e", "l", "l", "o">>, fills |-> <<Black>>]

Faded == Mk(<<"H", "i", "n", "t">>, "TEXT") @@ [characters |-> <<" ", "H", "i", " ">>, fills |-> <<Red>>, opacity |-> 500]

BackIcon == Mk(<<"B", "a", "c", "k">>, "TEXT") @@ [characters |-> <<" ", Glyph>>, opacity |-> 250]

Vector == Mk(<<"V", "e", "c", "t", "o", "r", " ", "1">>, "VECTOR")

Avatar ==
  Mk(<<"A", "v", "a", "t", "a", "r">>, "ELLIPSE") @@
  [fills |-> <<ImageFill>>, absoluteBoundingBox |-> BBox, cornerRadius |-> 500, opacity |-> 500]

CoreLeaves ==
  {Hello, Faded, BackIcon, Vector, Avatar,
   Mk(<<"B", "l", "a", "n", "k">>, "TEXT") @@ [characters |-> <<>>, opacity |-> 250],
   Mk(<<"N", "o", "t", "e">>, "TEXT") @@ [characters |-> <<" ">>],
   Mk(<<"S", "p", "a", "c", "e", "r">>, "FRAME") @@ [fills |-> <<ImageFill>>, cornerRadius |-> 8],
   Mk(<<"D", "o", "t">>, "ELLIPSE"),
   Mk(<<"H", "i", "d", "d", "e", "n">>, "TEXT") @@ [characters |-> <<"H", "e", "l", "l", "o">>, visible |-> FALSE],
   Mk(<<"T", "i", "m", "e">>, "TEXT") @@ [characters |-> <<"9", ":", "4", "1">>],
   Mk(<<"U", "n", "i", "o", "n">>, "BOOLEAN_OPERATION") @@ [fills |-> <<ImageFill>>, cornerRadius |-> 100]}

SecondLeaves == {Faded, Vector, Mk(<<"S", "h", "a", "d", "o", "w">>, "RECTANGLE") @@ [fills |-> <<Black>>]}

\* --- wrappers (without their children) ---

WrapperNames ==
  {<<"c", "o", "n", "t", "a", "i", "n", "e", "r">>, <<"C", "o", "n", "t", "a", "i", "n", "e", "r">>, <<" ", "c", "o", "n", "t", "a", "i", "n", "e", "r">>, <<"P", "r", "i", "m", "a", "r", "y", " ", "A", "c", "t", "i", "o", "n">>, <<"I", "c", "o", "n", " ", "W", "r", "a", "p", "p", "e", "r">>,
   <<"o", "v", "e", "r", "l", "a", "y">>, <<"O", "v", "e", "r", "l", "a", "y">>, <<"F", "r", "a", "m", "e", " ", "1", "2">>, <<"f", "r", "a", "m", "e">>, <<"_", "s", "l", "o", "t">>, <<"A", "c", "c", "e", "s", "s", "o", "r", "i", "e", "s", " ", "L", "e", "f", "t">>,
   <<"T", "e", "x", "t">>, <<"I", "m", "a", "g", "e">>, <<"C", "o", "n", "t", "e", "n", "t", "s">>, <<"C", "o", "n", "t", "e", "n", "t">>, <<" ", "B", "G", " ">>, <<"S", "c", "r", "o", "l", "l", "b", "a", "r", " ", "T", "r", "a", "c", "k">>,
   <<"C", "a", "p", "s", "u", "l", "e">>, <<"L", "i", "q", "u", "i", "d", " ", "G", "l", "a", "s", "s", " ", "-", " ", "T", "i", "n", "t">>}

WrapperStyles ==
  {<<>>,
   [fills |-> <<Red>>], [fills |-> <<White>>], [fills |-> <<WhiteHalf>>],
   [fills |-> <<BlackNearOpaque>>], [fills |-> <<Gradient>>],
   [cornerRadius |-> 8], [cornerRadius |-> 99], [cornerRadius |-> 100],
   [cornerRadius |-> 0], [cornerRadius |-> -4],
   [cornerRadius |-> 500, fills |-> <<Red>>], [cornerRadius |-> 999, fills |-> <<Red>>],
   [cornerRadius |-> 1000, opacity |-> 999], [cornerRadius |-> -4, opacity |-> 0],
   [opacity |-> 500], [opacity |-> 1000], [opacity |-> 456, cornerRadius |-> 8],
   [layoutMode |-> "HORIZONTAL", itemSpacing |-> 8, paddingTop |-> 4, paddingLeft |-> 0],
   [layoutMode |-> "VERTICAL", itemSpacing |-> 0, paddingBottom |-> 0, fills |-> <<Red>>],
   [layoutMode |-> "HORIZONTAL", fills |-> <<ImageFill>>, absoluteBoundingBox |-> BBox,
    itemSpacing |-> 8, paddingRight |-> 6, opacity |-> 500],
   [fills |-> <<ImageFill, Red>>, cornerRadius |-> 500],
   [visible |-> FALSE]}

Wrappers ==
  {Mk(nm, "FRAME") @@ st : nm \in WrapperNames, st \in {<<>>, [fills |-> <<Red>>, cornerRadius |-> 8]}}
  \cup {Mk(nm, ty) @@ st : nm \in {<<"c", "o", "n", "t", "a", "i", "n", "e", "r">>, <<"P", "r", "i", "m", "a", "r", "y", " ", "A", "c", "t", "i", "o", "n">>}, ty \in {"FRAME"},
                            st \in WrapperStyles}
  \cup {Mk(<<"C", "a", "r", "d">>, ty) @@ st : ty \in {"INSTANCE", "GROUP", "TEXT", "RECTANGLE", "BOOLEAN_OPERATION"},
                                   st \in {<<>>, [opacity |-> 500], [fills |-> <<ImageFill>>]}}

CoreWrappers ==
  {Mk(<<"c", "o", "n", "t", "a", "i", "n", "e", "r">>, "FRAME"), Mk(<<"P", "r", "i", "m", "a", "r", "y", " ", "A", "c", "t", "i", "o", "n">>, "FRAME"), Mk(<<"I", "c", "o", "n", " ", "W", "r", "a", "p", "p", "e", "r">>, "FRAME"),
   Mk(<<"o", "v", "e", "r", "l", "a", "y">>, "FRAME"), Mk(<<"F", "r", "a", "m", "e", " ", "1", "2">>, "FRAME"), Mk(<<"_", "s", "l", "o", "t">>, "INSTANCE"),
   Mk(<<"C", "a", "r", "d">>, "INSTANCE") @@ [fills |-> <<Red>>, cornerRadius |-> 8],
   Mk(<<"P", "i", "l", "l">>, "FRAME") @@ [cornerRadius |-> 500, layoutMode |-> "HORIZONTAL", itemSpacing |-> 8],
   Mk(<<"D", "i", "m", "m", "e", "d">>, "FRAME") @@ [opacity |-> 456],
   Mk(<<"P", "h", "o", "t", "o">>, "FRAME") @@ [fills |-> <<ImageFill>>, absoluteBoundingBox |-> BBox, opacity |-> 500],
   Mk(<<"B", "a", "c", "k", "g", "r", "o", "u", "n", "d">>, "FRAME")}

Roots ==
  {Mk(<<"S", "c", "r", "e", "e", "n">>, "FRAME") @@ [absoluteBoundingBox |-> BBox],
   Mk(<<"H", "o", "m", "e">>, "FRAME") @@ [layoutMode |-> "VERTICAL", itemSpacing |-> 12],
   Mk(<<"H", "e", "r", "o">>, "COMPONENT") @@
     [fills |-> <<ImageFill>>, layoutMode |-> "HORIZONTAL", cornerRadius |-> 100,
      opacity |-> 995, absoluteBoundingBox |-> BBox]}

DeepRoots == {r \in Roots : Has(r, "absoluteBoundingBox")}

\* k wrappers of one profile nested around sub
RECURSIVE Chain(_, _, _)
Chain(k, profile, sub) ==
  IF k = 0 THEN sub ELSE W(profile, <<Chain(k - 1, profile, sub)>>)

ChainProfiles ==
  {Mk(<<"c", "o", "n", "t", "a", "i", "n", "e", "r">>, "FRAME"), Mk(<<"S", "e", "c", "t", "i", "o", "n">>, "FRAME"),
   Mk(<<"C", "a", "r", "d">>, "INSTANCE") @@ [cornerRadius |-> 8],
   Mk(<<"P", "h", "o", "t", "o">>, "FRAME") @@ [fills |-> <<ImageFill>>]}

ChainLengths == (MaxDepth - 2)..MaxChain

DeepSubtrees ==
  {Hello, BackIcon, Avatar, Vector, Mk(<<"o", "v", "e", "r", "l", "a", "y">>, "FRAME") @@ [fills |-> <<ImageFill>>]}
  \cup {W(w, <<l>>) : w \in {Mk(<<"P", "r", "i", "m", "a", "r", "y", " ", "A", "c", "t", "i", "o", "n">>, "FRAME"),
                              Mk(<<"o", "v", "e", "r", "l", "a", "y">>, "FRAME") @@ [fills |-> <<ImageFill>>]},
                       l \in {Hello, Avatar}}

\* the trees
LeafTrees == Leaves

SingleTrees == {W(r, <<l>>) : r \in Roots, l \in Leaves}

WrappedTrees == {W(r, <<W(w, <<l>>)>>) : r \in Roots, w \in Wrappers, l \in CoreLeaves}

PairTrees ==
  {W(Mk(<<"S", "c", "r", "e", "e", "n">>, "FRAME"), <<W(w, <<l1, l2>>)>>) :
     w \in Wrappers, l1 \in CoreLeaves, l2 \in SecondLeaves}

SiblingTrees ==
  {W(r, <<l, W(w, <<Vector>>)>>) : r \in Roots, l \in {Hello, Avatar}, w \in CoreWrappers}

NestedTrees ==
  {W(Mk(<<"S", "c", "r", "e", "e", "n">>, "FRAME"), <<W(w1, <<W(w2, <<l>>)>>)>>) :
     w1 \in CoreWrappers, w2 \in CoreWrappers, l \in {Hello, BackIcon, Avatar, Vector}}

TripleTrees ==
  {W(Mk(<<"S", "c", "r", "e", "e", "n">>, "FRAME"), <<Faded, W(w1, <<W(w2, <<W(w3, <<l>>)>>)>>)>>) :
     w1 \in {Mk(<<"c", "o", "n", "t", "a", "i", "n", "e", "r">>, "FRAME"), Mk(<<"P", "r", "i", "m", "a", "r", "y", " ", "A", "c", "t", "i", "o", "n">>, "FRAME"), Mk(<<"D", "i", "m", "m", "e", "d">>, "FRAME") @@ [opacity |-> 456]},
     w2 \in {Mk(<<"F", "r", "a", "m", "e", " ", "1", "2">>, "FRAME"), Mk(<<"I", "c", "o", "n", " ", "W", "r", "a", "p", "p", "e", "r">>, "GROUP"), Mk(<<"o", "v", "e", "r", "l", "a", "y">>, "FRAME")},
     w3 \in {Mk(<<"c", "o", "n", "t", "a", "i", "n", "e", "r">>, "FRAME"), Mk(<<"R", "o", "w">>, "FRAME") @@ [layoutMode |-> "HORIZONTAL", paddingTop |-> 4]},
     l \in {Hello, Avatar}}

DeepTrees ==
  {W(r, pre \o <<Chain(k, c, sub)>>) :
     r \in DeepRoots, pre \in {<<>>, <<Avatar>>}, k \in ChainLengths,
     c \in ChainProfiles, sub \in DeepSubtrees}

RawTrees ==
  LeafTrees \cup SingleTrees \cup WrappedTrees \cup PairTrees \cup SiblingTrees \cup
  NestedTrees \cup TripleTrees \cup DeepTrees

StyleMaps ==
  {<<>>,
   [brand |-> [t |-> "string", s |-> "#be845d"], scale |-> [t |-> "number"]],
   [grouped |-> [t |-> "string", s |-> "#f2f2f7"], meta |-> [t |-> "object"]]}

(***************************************************************************)
(* The get_swift_tree tool: one call at a time over stdio                  *)
(***************************************************************************)

ToolArgs ==
  {[fileKey |-> "Wi3zPekZ6ecpQTqLgcq4Xi", nodeId |-> "2217:48104"],
   [fileKey |-> "Wi3zPekZ6ecpQTqLgcq4Xi", nodeId |-> "2217:48104", depth |-> 2]}

HttpErrors == {[status |-> 403, body |-> "Forbidden"], [status |-> 429, body |-> "Rate limit"]}

Init ==
  /\ pc = "idle"
  /\ args = <<>>
  /\ response = Null
  /\ node = Null
  /\ styles = <<>>
  /\ parsed = Null
  /\ tree = Null
  /\ toolResult = Null
  /\ variables = Null
  /\ graph = Null
  /\ stack = <<>>

\* the client invokes the tool; the handler calls getSwiftTree, which awaits the fetch
CallTool(a) ==
  /\ pc = "idle"
  /\ pc' = "fetching"
  /\ args' = a
  /\ UNCHANGED <<response, node, styles, parsed, tree, toolResult, variables, graph, stack>>

\* fetchFigmaNode: response not ok; the error is caught by the handler
FetchHttpError(e) ==
  /\ pc = "fetching"
  /\ pc' = "done"
  /\ response' = [ok |-> FALSE, status |-> e.status, body |-> e.body]
  /\ toolResult' = [isError |-> TRUE, error |-> "Figma API error", status |-> e.status,
                    body |-> e.body]
  /\ UNCHANGED <<args, node, styles, parsed, tree, variables, graph, stack>>

\* faulty variant of FetchNotFound: a missing node gives an empty tree
FetchNotFoundEmptyTree ==
  /\ pc = "fetching"
  /\ pc' = "done"
  /\ response' = [ok |-> TRUE, nodeData |-> Null]
  /\ toolResult' = [content |-> [screen |-> <<>>, width |-> 0, height |-> 0,
                                 components |-> <<>>, tokens |-> <<>>]]
  /\ UNCHANGED <<args, node, styles, parsed, tree, variables, graph, stack>>

\* fetchFigmaNode: data.nodes[nodeId] is missing
FetchNotFound ==
  /\ pc = "fetching"
  /\ pc' = "done"
  /\ response' = [ok |-> TRUE, nodeData |-> Null]
  /\ toolResult' = [isError |-> TRUE, error |-> "not found", nodeId |-> args.nodeId,
                    fileKey |-> args.fileKey]
  /\ UNCHANGED <<args, node, styles, parsed, tree, variables, graph, stack>>

\* faulty variant of FetchOk: the decorative children of the root are removed
\* from the raw document itself
FetchOkPruningInPlace(d, st) ==
  /\ pc = "fetching"
  /\ pc' = "done"
  /\ response' = [ok |-> TRUE, nodeData |-> [document |-> d, styles |-> st]]
  /\ node' = IF Has(d, "children")
             THEN [d EXCEPT !.children = SelectSeq(d.children, LAMBDA c : ~isDecorative(c))]
             ELSE d
  /\ styles' = st
  /\ parsed' = parse(d, 0, TRUE)
  /\ tree' = getSwiftTreeOf(d, st)
  /\ toolResult' = [content |-> tree']
  /\ UNCHANGED <<args, variables, graph, stack>>

\* fetchFigmaNode answers with document d and styles st; getSwiftTree parses
\* and assembles; the handler returns the tree as JSON text, kept here as the
\* value it renders (absent fields are omitted by construction); response keeps
\* the answer as it was received, node is the document as the call leaves it
FetchOk(d, st) ==
  /\ pc = "fetching"
  /\ pc' = "done"
  /\ response' = [ok |-> TRUE, nodeData |-> [document |-> d, styles |-> st]]
  /\ node' = d
  /\ styles' = st
  /\ parsed' = parse(d, 0, TRUE)
  /\ tree' = getSwiftTreeOf(d, st)
  /\ toolResult' = [content |-> tree']
  /\ UNCHANGED <<args, variables, graph, stack>>

\* what the variables endpoint can do: answer with a JSON map, answer with a
\* non-success status, answer ok with a body that is not JSON, or not answer
\* at all (fetch rejects)
VariablesAnswers ==
  {[ok |-> TRUE, json |-> m] : m \in StyleMaps} \cup
  {[ok |-> FALSE, status |-> e.status] : e \in HttpErrors} \cup
  {[ok |-> TRUE, invalid |-> TRUE], [rejected |-> TRUE]}

\* what fetchFigmaVariables gives its caller on answer o: the awaits are not
\* guarded, so a rejected fetch or json() rejects the returned promise
fetchFigmaVariablesOn(o) ==
  IF Has(o, "rejected") THEN [threw |-> TRUE]
  ELSE IF ~o.ok THEN [value |-> <<>>, logged |-> o.status]
  ELSE IF Has(o, "invalid") THEN [threw |-> TRUE]
  ELSE [value |-> o.json]

\* fetchFigmaVariables, the exported token retrieval; get_swift_tree does not
\* call it, a caller of the module does, outside a tool call
FetchVariables(o) ==
  /\ pc = "idle"
  /\ pc' = "variables"
  /\ response' = o
  /\ variables' = fetchFigmaVariablesOn(o)
  /\ UNCHANGED <<args, node, styles, parsed, tree, toolResult, graph, stack>>

\* object graphs handed to the compression: object 1 is the root; a child
\* list may name an object that is above it
GraphNodes ==
  [loop |-> Mk(<<"L", "o", "o", "p">>, "FRAME"),
   photo |-> Mk(<<"P", "h", "o", "t", "o">>, "FRAME") @@ [fills |-> <<ImageFill>>],
   card |-> Mk(<<"C", "a", "r", "d">>, "INSTANCE") @@ [fills |-> <<ImageFill>>, opacity |-> 500,
                                       layoutMode |-> "VERTICAL", itemSpacing |-> 8],
   red |-> Mk(<<"B", "a", "d", "g", "e">>, "GROUP") @@ [fills |-> <<Red>>],
   title |-> Hello,
   icon |-> BackIcon,
   avatar |-> Avatar,
   vector |-> Vector]

GraphShapes ==
  {<<<<1>>>>, <<<<2>>, <<>>>>, <<<<1, 2>>, <<>>>>, <<<<2, 1>>, <<>>>>,
   <<<<2>>, <<1>>>>, <<<<2>>, <<3, 1>>, <<>>>>, <<<<2, 3>>, <<3>>, <<>>>>,
   <<<<2>>, <<2, 3>>, <<>>>>}

\* the shapes filled with nodes: inner objects are containers, objects without
\* a child list are leaves
ObjectGraphs ==
  UNION {
    {[i \in 1..Len(sh) |->
        IF sh[i] = <<>> THEN GraphNodes[leaf]
        ELSE W(GraphNodes[IF i = 1 THEN top ELSE inner], sh[i])] :
       top \in {"loop", "photo", "card", "red"},
       inner \in {"loop", "photo", "card"},
       leaf \in {"title", "icon", "avatar", "vector"}} :
    sh \in GraphShapes}

\* parse(root, 0, true) is called on an object graph held in memory
Compress(g) ==
  /\ pc = "idle"
  /\ graph' = g
  /\ IF reachesChildren(g[1], 0)
     THEN /\ pc' = "compressing"
          /\ stack' = <<Activation(1, 0, TRUE)>>
          /\ parsed' = parsed
     ELSE /\ pc' = "compressed"
          /\ stack' = <<>>
          /\ parsed' = parseBeforeChildren(g[1], 0)
  /\ UNCHANGED <<args, response, node, styles, tree, toolResult, variables>>

\* line 214: the loop of the innermost activation calls parse for its next
\* child, which returns at once or opens an activation of its own
ParseChild ==
  /\ pc = "compressing"
  /\ LET f == stack[Len(stack)]
         kids == childrenOf(graph[f.id])
     IN /\ f.next <= Len(kids)
        /\ LET c == kids[f.next] IN
             IF reachesChildren(graph[c], f.depth + 1)
             THEN stack' = Append(stack, Activation(c, f.depth + 1, FALSE))
             ELSE stack' = [stack EXCEPT ![Len(stack)] =
                              pushed(f, parseBeforeChildren(graph[c], f.depth + 1))]
  /\ UNCHANGED <<pc, args, response, node, styles, parsed, tree, toolResult, variables,
                 graph>>

\* the loop of the innermost activation is over: parse returns to its caller,
\* or throws through every open activation
ParseReturn ==
  /\ pc = "compressing"
  /\ LET f == stack[Len(stack)]
         kids == childrenOf(graph[f.id])
         p == parseAfterChildrenIn(graph, f.id, f.children, f.isRoot)
     IN /\ f.next > Len(kids)
        /\ IF p = Raised \/ Len(stack) = 1
           THEN /\ pc' = "compressed"
                /\ parsed' = p
                /\ stack' = <<>>
           ELSE /\ pc' = pc
                /\ parsed' = parsed
                /\ stack' = [i \in 1..(Len(stack) - 1) |->
                               IF i = Len(stack) - 1 THEN pushed(stack[i], p) ELSE stack[i]]
  /\ UNCHANGED <<args, response, node, styles, tree, toolResult, variables, graph>>

\* the result goes back to the client; nothing of the call is kept
Return ==
  /\ pc \in {"done", "variables", "compressed"}
  /\ pc' = "idle"
  /\ args' = <<>>
  /\ response' = Null
  /\ node' = Null
  /\ styles' = <<>>
  /\ parsed' = Null
  /\ tree' = Null
  /\ toolResult' = Null
  /\ variables' = Null
  /\ graph' = Null
  /\ stack' = <<>>

\* the style map varies only with the small documents
Responses ==
  (RawTrees \X {<<>>}) \cup (LeafTrees \X StyleMaps)

Next ==
  \/ \E a \in ToolArgs : CallTool(a)
  \/ \E e \in HttpErrors : FetchHttpError(e)
  \/ FetchNotFound
  \/ \E r \in Responses : FetchOk(r[1], r[2])
  \/ \E o \in VariablesAnswers : FetchVariables(o)
  \/ \E g \in ObjectGraphs : Compress(g)
  \/ ParseChild
  \/ ParseReturn
  \/ Return

Spec == Init /\ [][Next]_vars

(***************************************************************************)
(* Vocabulary of the properties                                            *)
(***************************************************************************)

\* the call in flight got a document and compressed it
Fetched == pc = "done" /\ node # Null

\* every raw node of the tree under n with its depth (n itself at depth d)
RECURSIVE RawNodes(_, _)
RawNodes(n, d) ==
  {[n |-> n, depth |-> d]} \cup
  (IF Has(n, "children")
   THEN UNION {RawNodes(n.children[i], d + 1) : i \in 1..Len(n.children)}
   ELSE {})

\* every node of the output tree under s
RECURSIVE OutNodes(_)
OutNodes(s) ==
  IF s = Null THEN {}
  ELSE {s} \cup
       (IF Has(s, "children")
        THEN UNION {OutNodes(s.children[i]) : i \in 1..Len(s.children)}
        ELSE {})

\* what parse returns for the raw node v where it sits in the tree
ParseAt(v) == parse(v.n, v.depth, v.depth = 0)

\* the compressed children of v that were not filtered
Survivors(v) ==
  IF Has(v.n, "children") THEN parseChildren(v.n.children, v.depth) ELSE <<>>

\* v is within the depth cap, visible and not decorative
Considered(v) == v.depth <= 20 /\ ~isDecorative(v.n)

\* parse gets as far as compressing the children of v
Recurses(v) ==
  /\ Considered(v)
  /\ ~isEmptyLeaf(v.n)
  /\ ~(v.n.type = "TEXT" /\ Has(v.n, "characters") /\ v.n.characters # <<>>)

\* no non-default solid fill, no corner radius in (0,100), no opacity below 1
Unstyled(n) ==
  /\ getSolidFill(n) \in {<<>>, <<"#", "0", "0", "0", "0", "0", "0">>, <<"#", "f", "f", "f", "f", "f", "f">>, <<"#", "0", "0", "0", "0", "0", "0", "f", "f">>, <<"#", "f", "f", "f", "f", "f", "f", "f", "f">>}
  /\ ~(Has(n, "cornerRadius") /\ n.cornerRadius > 0 /\ n.cornerRadius < 100)
  /\ ~(Has(n, "opacity") /\ n.opacity < 1000)

\* a non-root wrapper whose only surviving child takes its place
FlattenedWrapper(v) ==
  v.depth > 0 /\ Unstyled(v.n) /\ Recurses(v) /\ Len(Survivors(v)) = 1

Rename(s, nm) == [f \in DOMAIN s |-> IF f = "name" THEN nm ELSE s[f]]

(***************************************************************************)
(* C1                                                                      *)
(***************************************************************************)

\* C1: no node of the output tree, at any level, has a name that isDecorative
\* rejects: its lower-cased trimmed name is not on the denylist, and no
\* childless output node is named "overlay"; adopted names included.
C1_NoDecorativeNameInOutput ==
  Fetched => \A s \in OutNodes(parsed) : ~isDecorative(s)

(***************************************************************************)
(* C2                                                                      *)
(***************************************************************************)

\* C2: every cornerRadius present on an output node is strictly between 0
\* and 100, on the default construction and on the Image fallback alike.
C2_CornerRadiusInBand ==
  Fetched =>
    \A s \in OutNodes(parsed) :
      Has(s, "cornerRadius") => (s.cornerRadius > 0 /\ s.cornerRadius < 100)

(***************************************************************************)
(* C3                                                                      *)
(***************************************************************************)

\* v yields an output node of its own (text leaf, icon, Image fallback or
\* default construction) rather than being dropped or replaced by its child
Constructs(v) ==
  /\ ParseAt(v) # Null
  /\ ~(Recurses(v) /\ v.depth > 0 /\ Len(Survivors(v)) = 1 /\ ~isMeaningful(v.n))

\* C3: a raw node that yields an output node gives it an opacity field if and
\* only if its own opacity is defined and below 1, and the field is the raw
\* opacity rounded to 2 decimals.
C3_OpacityIffBelowOne ==
  Fetched =>
    \A v \in RawNodes(node, 0) :
      Constructs(v) =>
        /\ Has(ParseAt(v), "opacity") <=> (Has(v.n, "opacity") /\ v.n.opacity < 1000)
        /\ Has(ParseAt(v), "opacity") =>
             ParseAt(v).opacity = ((v.n.opacity + 5) \div 10) * 10

(***************************************************************************)
(* C4                                                                      *)
(***************************************************************************)

\* a childless frame, group, rectangle, instance or component without text
\* and without an image fill
BareContainer(n) ==
  /\ n.type \in {"FRAME", "GROUP", "RECTANGLE", "INSTANCE", "COMPONENT"}
  /\ ~(Has(n, "children") /\ Len(n.children) > 0)
  /\ ~(Has(n, "characters") /\ n.characters # <<>>)
  /\ ~(Has(n, "fills") /\ \E i \in 1..Len(n.fills) : n.fills[i].type = "IMAGE")

\* C4: a frame, group, rectangle, instance or component with no children, no
\* text and no image fill never yields an output node, whatever its fill,
\* corner radius, opacity or name: parse returns null for it, so the output
\* for its parent is built without it.
C4_BareContainerPruned ==
  Fetched =>
    \A v \in RawNodes(node, 0) :
      /\ BareContainer(v.n) => ParseAt(v) = Null
      /\ \A i \in 1..(IF Has(v.n, "children") THEN Len(v.n.children) ELSE 0) :
           BareContainer(v.n.children[i]) =>
             Survivors(v) =
               Survivors([v EXCEPT !.n = [f \in DOMAIN v.n |->
                 IF f = "children"
                 THEN [j \in 1..Len(v.n.children) |->
                         IF j = i THEN Mk(<<"x">>, "FRAME") ELSE v.n.children[j]]
                 ELSE v.n[f]]])

\* a styled bare container sits below a root that compresses to something
W4_BareContainerPruned ==
  /\ Fetched
  /\ parsed # Null
  /\ \E v \in RawNodes(node, 0) :
       /\ v.depth > 0
       /\ BareContainer(v.n)
       /\ Has(v.n, "fills") /\ Has(v.n, "cornerRadius") /\ Has(v.n, "opacity")

(***************************************************************************)
(* C5                                                                      *)
(***************************************************************************)

\* the tree under n (at depth d) with every node deeper than 20 reduced to
\* its kind and its children: no name, content or attribute left
RECURSIVE Scrub(_, _)
Scrub(n, d) ==
  LET own == IF d > 20 THEN Mk(<<"x">>, n.type)
             ELSE [f \in DOMAIN n \ {"children"} |-> n[f]]
  IN IF Has(n, "children")
     THEN own @@ [children |-> [i \in 1..Len(n.children) |-> Scrub(n.children[i], d + 1)]]
     ELSE own

C6_ContainerWrapperReplaced ==
  Fetched =>
    \A v \in RawNodes(node, 0) :
      (FlattenedWrapper(v) /\ v.n.name = <<"c", "o", "n", "t", "a", "i", "n", "e", "r">>) =>
        LET p == ParseAt(v) IN
          /\ p = Survivors(v)[1]
          /\ \E i \in 1..Len(v.n.children) :
               p = parse(v.n.children[i], v.depth + 1, FALSE)

\* the root's only child is such a wrapper, and the output holds the child
\* under its own name
W6_ContainerWrapperReplaced ==
  /\ Fetched
  /\ parsed # Null
  /\ \E v \in RawNodes(node, 0) :
       /\ v.depth = 1
       /\ FlattenedWrapper(v)
       /\ v.n.name = <<"c", "o", "n", "t", "a", "i", "n", "e", "r">>
       /\ Has(parsed, "children")
       /\ parsed.children = <<Survivors(v)[1]>>
       /\ parsed.children[1].name # <<"c", "o", "n", "t", "a", "i", "n", "e", "r">>

(***************************************************************************)
(* C7                                                                      *)
(***************************************************************************)

\* the generic names as the claim lists them
ListedGeneric(nm) ==
  LET l == toLowerCase(nm) IN
    \/ l \in {<<"f", "r", "a", "m", "e">>, <<"c", "o", "n", "t", "a", "i", "n", "e", "r">>, <<"c", "o", "n", "t", "e", "n", "t", "s">>, <<"c", "o", "n", "t", "e", "n", "t">>, <<"t", "e", "x", "t">>, <<"i", "m", "a", "g", "e">>}
    \/ startsWith(l, <<"a", "c", "c", "e", "s", "s", "o", "r", "i", "e", "s">>)
    \/ startsWith(l, <<"_">>)

\* C7 as stated: a non-root wrapper with one surviving child and no visually
\* meaningful attribute, whose lower-cased name is not exactly "frame",
\* "container", "contents", "content", "text" or "image" and starts with
\* neither "accessories" nor "_", yields the compressed child renamed to the
\* wrapper's name, every other field untouched.
C7_NameAdoptionAsStated ==
  Fetched =>
    \A v \in RawNodes(node, 0) :
      (FlattenedWrapper(v) /\ ~ListedGeneric(v.n.name)) =>
        ParseAt(v) = Rename(Survivors(v)[1], v.n.name)

\* C7 amended: the same, for wrappers whose lower-cased name in addition does
\* not start with "frame"; a wrapper whose name starts with "frame" yields
\* the child unchanged.
C7_NameAdoption ==
  Fetched =>
    \A v \in RawNodes(node, 0) :
      FlattenedWrapper(v) =>
        LET child == Survivors(v)[1] IN
          ParseAt(v) =
            IF ListedGeneric(v.n.name) \/ startsWith(toLowerCase(v.n.name), <<"f", "r", "a", "m", "e">>)
            THEN child
            ELSE Rename(child, v.n.name)

\* a wrapper "Primary Action" around a text node gives the Text node renamed
W7_NameAdoption ==
  /\ Fetched
  /\ \E v \in RawNodes(node, 0) :
       /\ FlattenedWrapper(v)
       /\ v.n.name = <<"P", "r", "i", "m", "a", "r", "y", " ", "A", "c", "t", "i", "o", "n">>
       /\ Len(v.n.children) = 1
       /\ v.n.children[1].type = "TEXT"
       /\ Survivors(v)[1].name # <<"P", "r", "i", "m", "a", "r", "y", " ", "A", "c", "t", "i", "o", "n">>
       /\ ParseAt(v).type = "Text"
       /\ ParseAt(v).name = <<"P", "r", "i", "m", "a", "r", "y", " ", "A", "c", "t", "i", "o", "n">>
       /\ \E s \in OutNodes(parsed) : s = ParseAt(v)

(***************************************************************************)
(* C8                                                                      *)
(***************************************************************************)

GlyphText(n) ==
  n.type = "TEXT" /\ Has(n, "characters") /\ trim(n.characters) \in DOMAIN SfSymbols

\* C8: a visible, non-decorative text node within the depth cap whose trimmed
\* content is a key of the glyph table yields an Icon node with the mapped
\* identifier and the node's own name, and nothing else (no content, never
\* Text).
C8_GlyphTextIsIcon ==
  Fetched =>
    \A v \in RawNodes(node, 0) :
      (Considered(v) /\ GlyphText(v.n)) =>
        ParseAt(v) = [name |-> v.n.name, type |-> "Icon",
                      icon |-> SfSymbols[trim(v.n.characters)]]

\* a glyph padded with white space shows as an Icon in the output
W8_GlyphTextIsIcon ==
  /\ Fetched
  /\ \E v \in RawNodes(node, 0) :
       /\ Considered(v)
       /\ GlyphText(v.n)
       /\ v.n.characters # trim(v.n.characters)
       /\ \E s \in OutNodes(parsed) : s.type = "Icon" /\ s = ParseAt(v)

(***************************************************************************)
(* C9                                                                      *)
(***************************************************************************)

ScenarioTree ==
  W(Mk(<<"H", "o", "m", "e">>, "FRAME") @@ [layoutMode |-> "VERTICAL", itemSpacing |-> 12],
    <<Hello, W(Mk(<<"I", "c", "o", "n", " ", "W", "r", "a", "p", "p", "e", "r">>, "FRAME"), <<Vector>>)>>)

ScenarioExpected ==
  [name |-> <<"H", "o", "m", "e">>, type |-> "VStack", spacing |-> 12,
   children |-> <<[name |-> <<"T", "i", "t", "l", "e">>, type |-> "Text", content |-> <<"H", "e", "l", "l", "o">>],
                  [name |-> <<"I", "c", "o", "n", " ", "W", "r", "a", "p", "p", "e", "r">>, type |-> "Shape"]>>]

\* C9: a visible, non-decorative, childless vector or boolean-shape node
\* within the depth cap yields a Shape node; and the vertical root (spacing
\* 12) holding the black text "Hello" and the frame "Icon Wrapper" around one
\* vector compresses to a VStack with spacing 12 and the children
\* Text "Hello" (no fill) and Shape "Icon Wrapper".
C9_VectorKeptAsShape ==
  Fetched =>
    /\ \A v \in RawNodes(node, 0) :
         (/\ Considered(v)
          /\ v.n.type \in {"VECTOR", "BOOLEAN_OPERATION"}
          /\ ~(Has(v.n, "children") /\ Len(v.n.children) > 0)) =>
           (ParseAt(v) # Null /\ ParseAt(v).type = "Shape")
    /\ node = ScenarioTree => parsed = ScenarioExpected

(***************************************************************************)
(* Assembly of the returned tree                                           *)
(***************************************************************************)

\* the whole number nearest to a size given in tenths, halves going up
Nearest(w) == CHOOSE k \in 0..w : 10 * k - 5 <= w /\ w < 10 * k + 5

\* C11: the returned tree carries the raw root's name as screen, the raw
\* root's bounding box rounded to whole numbers as width and height (0 and 0
\* without a bounding box), and as components the compressed root's children
\* when it has children, the compressed root alone when it is a childless
\* node, and nothing when the root compressed to absent.
C11_TreeAssembly ==
  Fetched =>
    /\ toolResult = [content |-> tree]
    /\ tree.screen = node.name
    /\ IF Has(node, "absoluteBoundingBox")
       THEN /\ tree.width = Nearest(node.absoluteBoundingBox.width)
            /\ tree.height = Nearest(node.absoluteBoundingBox.height)
       ELSE tree.width = 0 /\ tree.height = 0
    /\ tree.components =
         (CASE parsed = Null -> <<>>
            [] parsed # Null /\ Has(parsed, "children") -> parsed.children
            [] OTHER -> <<parsed>>)

\* a root with a bounding box of 123.5 x 40.4 whose compressed form has
\* children: 124 x 40 and the children are the components
W11_TreeAssembly ==
  /\ Fetched
  /\ Has(node, "absoluteBoundingBox")
  /\ node.absoluteBoundingBox.width = 1235
  /\ tree.width = 124 /\ tree.height = 40
  /\ parsed # Null /\ Has(parsed, "children")
  /\ Len(tree.components) >= 2
  /\ tree.components = parsed.children
  /\ tree.screen = node.name

(***************************************************************************)
(* The depth input of the tool                                             *)
(***************************************************************************)

\* the tree under n (at depth d) with every node deeper than cap reduced to
\* its kind and its children
RECURSIVE ScrubBelow(_, _, _)
ScrubBelow(n, d, cap) ==
  LET own == IF d > cap THEN Mk(<<"x">>, n.type)
             ELSE [f \in DOMAIN n \ {"children"} |-> n[f]]
  IN IF Has(n, "children")
     THEN own @@ [children |-> [i \in 1..Len(n.children) |->
                                  ScrubBelow(n.children[i], d + 1, cap)]]
     ELSE own

\* the traversal cap the tool's input schema announces for a call
AnnouncedCap(a) == IF Has(a, "depth") THEN a.depth ELSE 15

\* C12: the depth input is the maximum traversal depth: with depth d no raw
\* node deeper than d contributes to the returned tree, and with depth
\* omitted no raw node deeper than 15 does; the returned tree is the one
\* obtained when the nodes below the cap carry no name, content or attribute.
C12_DepthInputCapsTraversal ==
  Fetched =>
    tree = getSwiftTreeOf(ScrubBelow(node, 0, AnnouncedCap(args)), styles)

(***************************************************************************)
(* Failures of the upstream                                                *)
(***************************************************************************)

\* the call in flight ended on this answer of the node endpoint
Answered == pc = "done" /\ Has(response, "ok")

\* C13: when the upstream answers with a non-success status the call ends in
\* an error carrying that status and body; when the answer lacks the
\* requested node it ends in a "not found" error naming the node; in both
\* cases no tree is built or returned and the tool result is flagged isError.
C13_FailuresReported ==
  Answered =>
    /\ ~response.ok =>
         /\ Has(toolResult, "isError") /\ toolResult.isError
         /\ toolResult.error = "Figma API error"
         /\ toolResult.status = response.status
         /\ toolResult.body = response.body
         /\ ~Has(toolResult, "content")
         /\ tree = Null /\ parsed = Null
    /\ (response.ok /\ response.nodeData = Null) =>
         /\ Has(toolResult, "isError") /\ toolResult.isError
         /\ toolResult.error = "not found"
         /\ toolResult.nodeId = args.nodeId
         /\ ~Has(toolResult, "content")
         /\ tree = Null /\ parsed = Null

\* the upstream answered 429 "Rate limit" and the result says so
W13_FailuresReported ==
  /\ Answered
  /\ ~response.ok
  /\ response.status = 429
  /\ toolResult.isError
  /\ toolResult.status = 429
  /\ toolResult.body = "Rate limit"

(***************************************************************************)
(* Token retrieval                                                         *)
(***************************************************************************)

\* the token retrieval in flight failed: no answer, a non-success status or
\* a body that cannot be read
TokenRetrievalFailed ==
  /\ pc = "variables"
  /\ \/ Has(response, "rejected")
     \/ ~response.ok
     \/ Has(response, "invalid")

\* C14: token retrieval fails on its own: whenever it fails, by a non-success
\* answer or in any other way, its caller gets the empty token mapping and no
\* error; and a tree that was retrieved is returned as a result that is not
\* an error, whatever the token endpoint does.
C14_TokenFailureDegrades ==
  /\ TokenRetrievalFailed =>
       (Has(variables, "value") /\ variables.value = <<>> /\ ~Has(variables, "threw"))
  /\ Fetched => (Has(toolResult, "content") /\ ~Has(toolResult, "isError"))

(***************************************************************************)
(* Where sizes and layout fields appear                                    *)
(***************************************************************************)

\* C15: in the compressed tree a width or a height is carried only by Image
\* nodes and by the root of the compressed tree; every other node carries
\* neither, also when it was flattened into its place or adopted a name.
C15_SizeOnlyOnImageOrRoot ==
  Fetched =>
    \A s \in OutNodes(parsed) :
      (Has(s, "width") \/ Has(s, "height")) => (s.type = "Image" \/ s = parsed)

\* below the root a raw node with a bounding box is kept as an HStack without
\* a size, next to or above an Image that has one
W15_SizeOnlyOnImageOrRoot ==
  /\ Fetched
  /\ \E v \in RawNodes(node, 0) :
       /\ v.depth > 0
       /\ Has(v.n, "absoluteBoundingBox")
       /\ ParseAt(v) # Null
       /\ ParseAt(v) \in OutNodes(parsed)
       /\ ParseAt(v).type = "HStack"
       /\ ~Has(ParseAt(v), "width") /\ ~Has(ParseAt(v), "height")
  /\ \E s \in OutNodes(parsed) : s # parsed /\ s.type = "Image" /\ Has(s, "width")

\* C16: in the compressed tree a spacing or a padding is carried only by
\* HStack and VStack nodes; a spacing that is present is not 0, and a padding
\* that is present has at least one side, only sides among top, right, bottom
\* and left, and no side equal to 0.
C16_LayoutOnlyOnStacks ==
  Fetched =>
    \A s \in OutNodes(parsed) :
      /\ (Has(s, "spacing") \/ Has(s, "padding")) => s.type \in {"HStack", "VStack"}
      /\ Has(s, "spacing") => s.spacing # 0
      /\ Has(s, "padding") =>
           /\ DOMAIN s.padding # {}
           /\ DOMAIN s.padding \subseteq {"top", "right", "bottom", "left"}
           /\ \A side \in DOMAIN s.padding : s.padding[side] # 0

\* a horizontal wrapper with spacing 8, top padding 4 and left padding 0 is
\* kept as an HStack whose padding has the top side only
W16_LayoutOnlyOnStacks ==
  /\ Fetched
  /\ \E v \in RawNodes(node, 0) :
       /\ Has(v.n, "paddingLeft") /\ v.n.paddingLeft = 0
       /\ ParseAt(v) \in OutNodes(parsed)
       /\ ParseAt(v).type = "HStack"
       /\ Has(ParseAt(v), "spacing") /\ ParseAt(v).spacing = 8
       /\ Has(ParseAt(v), "padding") /\ ParseAt(v).padding = [top |-> 4]

(***************************************************************************)
(* The input after the call                                                *)
(***************************************************************************)

CarriesImage(n) == Has(n, "fills") /\ \E i \in 1..Len(n.fills) : n.fills[i].type = "IMAGE"

\* the Image node a raw node without surviving children is to yield
BareImage(n) ==
  [name |-> n.name, type |-> "Image"] @@
  (IF Has(n, "absoluteBoundingBox")
   THEN [width |-> Nearest(n.absoluteBoundingBox.width),
         height |-> Nearest(n.absoluteBoundingBox.height)]
   ELSE <<>>) @@
  (IF Has(n, "cornerRadius") /\ n.cornerRadius # 0
   THEN [cornerRadius |-> n.cornerRadius] ELSE <<>>)

\* C18: every visible, non-decorative, non-text raw node within the depth cap
\* that has an image fill and no surviving child (no children, or all of them
\* pruned) yields an Image node without children that carries its name, its
\* rounded size when it has a bounding box and its corner radius when that is
\* present and not 0, and nothing else; the same node without an image fill
\* yields nothing.
C18_ImageKeptWithoutChildren ==
  Fetched =>
    \A v \in RawNodes(node, 0) :
      (Considered(v) /\ v.n.type # "TEXT" /\ Len(Survivors(v)) = 0) =>
        IF CarriesImage(v.n) THEN ParseAt(v) = BareImage(v.n) ELSE ParseAt(v) = Null

(***************************************************************************)
(* Categories                                                              *)
(***************************************************************************)

\* the raw node v gets an output node of its own by default construction
BuiltByDefault(v) ==
  /\ Recurses(v)
  /\ Len(Survivors(v)) > 0 \/ v.n.type = "TEXT"
  /\ ~FlattenedWrapper(v)

\* a text-kind node somewhere in the raw subtree of n, n included
TextWithin(n) == \E w \in RawNodes(n, 0) : w.n.type = "TEXT"

\* the category the precedence list gives a raw node
Precedence(n) ==
  IF n.type = "TEXT" THEN "Text"
  ELSE IF n.type \in {"VECTOR", "BOOLEAN_OPERATION"} THEN "Shape"
  ELSE IF CarriesImage(n) /\ ~TextWithin(n) THEN "Image"
  ELSE IF Has(n, "layoutMode") /\ n.layoutMode = "HORIZONTAL" THEN "HStack"
  ELSE IF Has(n, "layoutMode") /\ n.layoutMode = "VERTICAL" THEN "VStack"
  ELSE IF n.type \in {"INSTANCE", "COMPONENT"} THEN "Component"
  ELSE IF n.type \in {"FRAME", "GROUP"} THEN "Frame"
  ELSE "View"

\* C19: an output node built by default construction has the first category
\* that matches its raw node in the order Text (text kind), Shape (vector or
\* boolean shape), Image (own image fill and no text-kind node in the raw
\* subtree), HStack, VStack (auto-layout direction), Component (instance or
\* component), Frame (frame or group), View; so an auto-layout node with an
\* image fill and no text below it is an Image and has no spacing or padding.
C19_CategoryPrecedence ==
  Fetched =>
    \A v \in RawNodes(node, 0) :
      BuiltByDefault(v) =>
        /\ ParseAt(v).type = Precedence(v.n)
        /\ (Has(v.n, "layoutMode") /\ CarriesImage(v.n) /\ ~TextWithin(v.n)
             /\ v.n.type \notin {"TEXT", "VECTOR", "BOOLEAN_OPERATION"}) =>
             /\ ParseAt(v).type = "Image"
             /\ ~Has(ParseAt(v), "spacing") /\ ~Has(ParseAt(v), "padding")

\* a horizontal auto-layout node with an image fill, spacing 8 and right
\* padding 6 around a child that is not text is kept as an Image without
\* layout fields
W19_CategoryPrecedence ==
  /\ Fetched
  /\ \E v \in RawNodes(node, 0) :
       /\ BuiltByDefault(v)
       /\ Has(v.n, "layoutMode") /\ v.n.layoutMode = "HORIZONTAL"
       /\ Truthy(v.n, "itemSpacing") /\ Truthy(v.n, "paddingRight")
       /\ CarriesImage(v.n) /\ ~TextWithin(v.n)
       /\ ParseAt(v) \in OutNodes(parsed)
       /\ ParseAt(v).type = "Image"
       /\ Has(ParseAt(v), "children")
       /\ ~Has(ParseAt(v), "spacing") /\ ~Has(ParseAt(v), "padding")

(***************************************************************************)
(* Wrappers with one surviving child                                       *)
(***************************************************************************)

\* parse gives v an output node of its own around its surviving children
KeepsOwnNode(v) ==
  /\ ParseAt(v) # Null
  /\ ParseAt(v).name = v.n.name
  /\ Has(ParseAt(v), "children")
  /\ ParseAt(v).children = Survivors(v)

\* C20: a non-root node with exactly one surviving child yields an output
\* node of its own, with that child as its only child, if and only if it has
\* a solid fill other than black or white (6 or 8 hex digits), a corner
\* radius strictly between 0 and 100, or an opacity below 1; otherwise the
\* wrapper is discarded and the child, under its own or the wrapper's name,
\* takes its place. Spacing, padding and a corner radius of 100 or more do
\* not keep it.
C20_SingleChildWrapperKeptIffMeaningful ==
  Fetched =>
    \A v \in RawNodes(node, 0) :
      (v.depth > 0 /\ Recurses(v) /\ Len(Survivors(v)) = 1) =>
        /\ KeepsOwnNode(v) <=> ~Unstyled(v.n)
        /\ Unstyled(v.n) =>
             ParseAt(v) \in {Survivors(v)[1], Rename(Survivors(v)[1], v.n.name)}

\* a wrapper with corner radius 500 and spacing 8 is discarded below a
\* wrapper with a red fill that is kept around its single child
W20_SingleChildWrapperKeptIffMeaningful ==
  /\ Fetched
  /\ \E v \in RawNodes(node, 0) :
       /\ v.depth > 0 /\ Recurses(v) /\ Len(Survivors(v)) = 1
       /\ Has(v.n, "cornerRadius") /\ v.n.cornerRadius >= 100
       /\ Truthy(v.n, "itemSpacing")
       /\ ~KeepsOwnNode(v)
       /\ ParseAt(v) = Rename(Survivors(v)[1], v.n.name)
  /\ \E w \in RawNodes(node, 0) :
       /\ w.depth > 0 /\ Recurses(w) /\ Len(Survivors(w)) = 1
       /\ ~Unstyled(w.n)
       /\ KeepsOwnNode(w)
       /\ ParseAt(w) \in OutNodes(parsed)

(***************************************************************************)
(* Flattening after filtering, and not at the root                         *)
(***************************************************************************)

\* the raw children of v whose compressed form is not absent
SurvivingRaw(v) ==
  IF Has(v.n, "children")
  THEN SelectSeq(v.n.children, LAMBDA c : parse(c, v.depth + 1, FALSE) # Null)
  ELSE <<>>

\* the raw node of v with its surviving raw children only
Filtered(v) == [f \in DOMAIN v.n |-> IF f = "children" THEN SurvivingRaw(v) ELSE v.n[f]]

\* C21: flattening is decided on the filtered children and never at the
\* root: a non-root wrapper with several raw children of which exactly one
\* survives is flattened exactly like the wrapper with that raw child alone
\* (and kept when it is visually meaningful), while a root with exactly one
\* surviving child keeps its own node, so that the child is the single
\* component, compressed as a child and under the name it has there.
C21_FlattenAfterFilterNotAtRoot ==
  Fetched =>
    \A v \in RawNodes(node, 0) :
      /\ (v.depth > 0 /\ Recurses(v) /\ Len(Survivors(v)) = 1 /\ Len(v.n.children) >= 2) =>
           /\ Unstyled(v.n) =>
                /\ ParseAt(v) = parse(Filtered(v), v.depth, FALSE)
                /\ ParseAt(v) \in {Survivors(v)[1], Rename(Survivors(v)[1], v.n.name)}
           /\ ~Unstyled(v.n) => KeepsOwnNode(v)
      /\ (v.depth = 0 /\ Recurses(v) /\ Len(Survivors(v)) = 1) =>
           /\ KeepsOwnNode(v)
           /\ parsed = ParseAt(v)
           /\ tree.components = <<parse(SurvivingRaw(v)[1], 1, FALSE)>>

\* under an unstyled root a wrapper with two raw children, one of them
\* pruned, is replaced by its surviving child under the wrapper's name, and
\* that node is the single component
W21_FlattenAfterFilterNotAtRoot ==
  /\ Fetched
  /\ Unstyled(node)
  /\ Len(tree.components) = 1
  /\ tree.components[1].name # node.name
  /\ \E v \in RawNodes(node, 0) :
       /\ v.depth = 1 /\ Recurses(v) /\ Unstyled(v.n)
       /\ Len(Survivors(v)) = 1 /\ Len(v.n.children) = 2
       /\ ParseAt(v) = Rename(Survivors(v)[1], v.n.name)
       /\ Survivors(v)[1].name # v.n.name
       /\ tree.components = <<ParseAt(v)>>

(***************************************************************************)
(* C23                                                                     *)
(***************************************************************************)

\* the raw child of the flattened wrapper v that survives
SurvivingChild(v) ==
  LET i == CHOOSE i \in 1..Len(v.n.children) :
             parse(v.n.children[i], v.depth + 1, FALSE) # Null
  IN [n |-> v.n.children[i], depth |-> v.depth + 1]

\* the names of the flattened wrappers nested from v inwards, outermost first
RECURSIVE ChainOf(_)
ChainOf(v) ==
  IF FlattenedWrapper(v) THEN <<v.n.name>> \o ChainOf(SurvivingChild(v)) ELSE <<>>

\* the raw node at the inner end of the chain that starts at v
RECURSIVE Innermost(_)
Innermost(v) == IF FlattenedWrapper(v) THEN Innermost(SurvivingChild(v)) ELSE v

\* a generic name: exactly "container", "contents", "content", "text" or
\* "image", or starting with "frame", "accessories" or "_"
GenericName(nm) == ListedGeneric(nm) \/ startsWith(toLowerCase(nm), <<"f", "r", "a", "m", "e">>)

\* the first name of names that is not generic, own when there is none
CollapsedName(names, own) ==
  IF \E i \in 1..Len(names) : ~GenericName(names[i])
  THEN names[CHOOSE i \in 1..Len(names) :
               ~GenericName(names[i]) /\ \A j \in 1..(i - 1) : GenericName(names[j])]
  ELSE own

\* C23: a chain of nested non-root wrappers, each with exactly one surviving
\* child and none visually meaningful, collapses to what the innermost
\* surviving node compresses to, all fields kept except the name: the name
\* is that of the outermost wrapper of the chain whose name is not generic,
\* the innermost node's own name when every wrapper is generic.
C23_ChainCollapses ==
  Fetched =>
    \A v \in RawNodes(node, 0) :
      FlattenedWrapper(v) =>
        LET inner == ParseAt(Innermost(v)) IN
          /\ inner # Null
          /\ ParseAt(v) = Rename(inner, CollapsedName(ChainOf(v), inner.name))

\* "container" around "Icon Wrapper" around "Row" around the text "Hello":
\* the output holds the Text node under the name "Icon Wrapper"
W23_ChainCollapses ==
  /\ Fetched
  /\ \E v \in RawNodes(node, 0) :
       /\ FlattenedWrapper(v)
       /\ ChainOf(v) = <<<<"c", "o", "n", "t", "a", "i", "n", "e", "r">>, <<"I", "c", "o", "n", " ", "W", "r", "a", "p", "p", "e", "r">>, <<"R", "o", "w">>>>
       /\ Innermost(v).n.type = "TEXT"
       /\ ParseAt(Innermost(v)).name # <<"I", "c", "o", "n", " ", "W", "r", "a", "p", "p", "e", "r">>
       /\ ParseAt(v) = Rename(ParseAt(Innermost(v)), <<"I", "c", "o", "n", " ", "W", "r", "a", "p", "p", "e", "r">>)
       /\ \E s \in OutNodes(parsed) : s = ParseAt(v)

(***************************************************************************)
(* Termination                                                             *)
(***************************************************************************)

\* C22: compression returns on every input, a graph whose child references
\* form a cycle included: the result is a node or absent, and nothing is
\* raised.
C22_CompressionReturns ==
  /\ pc = "compressing" => Len(stack) <= MaxDepth + 1
  /\ pc = "compressed" => parsed # Raised

====
